---- MODULE Spec2Model ----
(***************************************************************************)
(* A model of the xaven-sdk request orchestration core:                    *)
(*   - packages/core/xaven-context.ts : the AsyncLocalStorage context      *)
(*     store and the Express middleware that seeds it;                     *)
(*   - packages/core/xaven-factory.ts : fetchWithCache / getPostById /     *)
(*     getPostsInBulk over a NodeCache (stdTTL 10 s) and pLimit(3);        *)
(*   - packages/lib/xaven-ai-engine.ts and xaven-purchase-optimizer.ts :   *)
(*     the two domain clients and their retry loops.                       *)
(*                                                                         *)
(* JavaScript runs every callback to completion, so one action is one     *)
(* macrotask (with the microtasks it drains).                              *)
(*                                                                         *)
(* Strings that the code inspects (the header, the ids) are sequences of   *)
(* one-character strings.  A JavaScript value is a record with a "kind".   *)
(***************************************************************************)
EXTENDS Integers, Sequences, FiniteSets, TLC

VARIABLES
    \* ---- xaven-context.ts
    established,   \* request -> the contextData its middleware call built
    pending,       \* async resources (timers, deferred callbacks) not yet run
    nextCb,        \* next async resource id
    currentStore,  \* xavenContextStore.getStore() between macrotasks
    obs,           \* what the last getXavenContext/getCorrelationId/getUserId returned
    usedIds,       \* identifiers randomUUID()/uuidv4() already produced
    inbound,       \* the request the middleware handled last: header and user id
    \* ---- xaven-factory.ts
    now,           \* Date.now(), in seconds
    cache,         \* NodeCache.data : url -> wrapped entry
    activeCount,   \* pLimit: tasks executing
    queue,         \* pLimit: waiting tasks, oldest first
    tasks,         \* the fetchWithCache calls made so far, in call order
    lookups,       \* what the cache lookups of the latest step saw
    dequeued,      \* the task next() last took from the queue, 0 before the first
    bulk,          \* history: the latest getPostsInBulk call, where it is recorded
    http,          \* the GET /post-by-id requests handled so far
    \* ---- xaven-ai-engine.ts / xaven-purchase-optimizer.ts
    clients,       \* this.state.config of the XavenAiEngine and the XavenPurchaseOptimizer
    calls,         \* the parseUserQuery / optimizePurchase invocations so far
    \* ---- interfaces/dependency-injector.ts
    providers,     \* SimpleInjector.providers : token -> provider
    instance,      \* SingletonProvider.instance of each singleton provider
    produced,      \* history: the values each factory returned, in call order
    di             \* history: the latest register / resolve / get call and its outcome

clientVars == <<clients, calls>>
ctxVars == <<established, pending, nextCb, currentStore, obs, usedIds, inbound>>
fetchVars == <<now, cache, activeCount, queue, tasks, lookups, dequeued, bulk>>
routeVars == <<http>>
injVars == <<providers, instance, produced, di>>
vars == <<established, pending, nextCb, currentStore, obs, usedIds, inbound,
          now, cache, activeCount, queue, tasks, lookups, dequeued, bulk,
          http, clients, calls, providers, instance, produced, di>>

-----------------------------------------------------------------------------
(* JavaScript values *)

Undefined == [kind |-> "undefined"]
Null == [kind |-> "null"]
Str(s) == [kind |-> "string", val |-> s]
StrArray == [kind |-> "array"]

\* typeof v === "string"
IsString(v) == v.kind = "string"

\* JavaScript truthiness of the values of this model: undefined, null, "",
\* false and 0 are falsy, every object and every non-empty string is truthy.
Truthy(v) ==
    /\ v.kind # "undefined"
    /\ v.kind # "null"
    /\ (v.kind = "string" => v.val # <<>>)
    /\ (v.kind = "boolean" => v.val)
    /\ (v.kind = "number" => v.val # 0)

Whitespace == {" ", "\t"}

RECURSIVE TrimStart(_)
TrimStart(s) ==
    IF s = <<>> \/ Head(s) \notin Whitespace THEN s ELSE TrimStart(Tail(s))

RECURSIVE TrimEnd(_)
TrimEnd(s) ==
    IF s = <<>> \/ s[Len(s)] \notin Whitespace THEN s
    ELSE TrimEnd(SubSeq(s, 1, Len(s) - 1))

\* String.prototype.trim
Trim(s) == TrimEnd(TrimStart(s))

Rep(c, n) == [i \in 1..n |-> c]

\* crypto.randomUUID() / uuid.v4(): xxxxxxxx-xxxx-4xxx-yxxx-xxxxxxxxxxxx,
\* here with all random nibbles x equal, and the variant nibble y.
UUIDv4(x, y) ==
    Rep(x, 8) \o <<"-">> \o Rep(x, 4) \o <<"-", "4">> \o Rep(x, 3) \o <<"-", y>>
        \o Rep(x, 3) \o <<"-">> \o Rep(x, 12)
UuidSeq == <<UUIDv4("0", "8"), UUIDv4("f", "b"), UUIDv4("0", "b"), UUIDv4("f", "8")>>
UUIDs == {UuidSeq[i] : i \in DOMAIN UuidSeq}
\* The generators never repeat an identifier.  Where only this matters, the
\* next identifier is the first of UuidSeq not produced yet.
NextUuid(used) ==
    {UuidSeq[i] : i \in {j \in DOMAIN UuidSeq :
                            /\ UuidSeq[j] \notin used
                            /\ \A m \in 1..(j - 1) : UuidSeq[m] \in used}}

-----------------------------------------------------------------------------
(* Bounds *)

MaxCallbacks == 3      \* async resources created in one behaviour
MaxSpawn == 2          \* callbacks one macrotask schedules
MaxDepth == 2          \* nesting of scheduled callbacks

Requests == {"R1", "R2"}
Outside == "outside"   \* owner of code that descends from no request

\* req.headers["x-correlation-id"]
HeaderValues ==
    { Undefined, StrArray, Str(<<>>), Str(<<" ", " ">>),
      Str(<<" ", "a", "\t">>), Str(<<"a">>), Str(<<"b">>),
      Str(<<"a", " ", "b", " ">>) }

\* (req as any).userId
UserIdValues == { Undefined, Str(<<>>), Str(<<"u", "1">>) }

-----------------------------------------------------------------------------
(* xaven-context.ts *)

NoContext == [kind |-> "undefined"]
NoRequest == [req |-> "none"]
XavenContextData(cid, uid) ==
    [kind |-> "context", correlationId |-> cid, userId |-> uid]

\* lines 33-41: the header is used, trimmed, when it is a string that is not
\* blank; otherwise a UUID `fresh` is generated.
HeaderUsableUntrimmed(incoming) == IsString(incoming) /\ Len(incoming.val) > 0
HeaderUsable(incoming) == IsString(incoming) /\ Len(Trim(incoming.val)) > 0
CorrelationIdForUntrimmed(incoming, fresh) ==
    IF HeaderUsable(incoming) THEN incoming.val ELSE fresh
CorrelationIdFor(incoming, fresh) ==
    IF HeaderUsable(incoming) THEN Trim(incoming.val) ELSE fresh

\* line 45: (req as any).userId || undefined
UserIdForVerbatim(reqUserId) == reqUserId
UserIdFor(reqUserId) == IF Truthy(reqUserId) THEN reqUserId ELSE Undefined

\* AsyncLocalStorage.getStore() and the helpers (lines 62-78)
getXavenContext(store) == store
getCorrelationId(store) ==
    IF store.kind = "undefined" THEN Undefined ELSE Str(store.correlationId)
getUserId(store) ==
    IF store.kind = "undefined" THEN Undefined ELSE store.userId

\* AsyncLocalStorage: an async resource (timer, promise reaction) captures the
\* store that is active when it is created ...
CaptureStoreDropped(active, depth) == IF depth > 1 THEN NoContext ELSE active
CaptureStore(active, depth) == active

\* ... and its callback runs with the captured store, whatever store was
\* active when the event loop picked it.
CallbackStoreAmbient(cb, ambient) == ambient
CallbackStore(cb, ambient) == cb.store

\* xavenContextStore.run(contextData, fn) installs contextData for fn only and
\* restores the previous store when fn returns.
StoreAfterRunLeaked(previous, contextData) == contextData
StoreAfterRun(previous, contextData) == previous

\* What code running with store `active` on behalf of `owner` reads.
Observation(owner, depth, active) ==
    [ owner |-> owner, depth |-> depth,
      context |-> getXavenContext(active),
      correlationId |-> getCorrelationId(active),
      userId |-> getUserId(active),
      \* requests with callbacks still pending at this moment (ghost)
      concurrent |-> {cb.owner : cb \in pending} \ {owner, Outside} ]
NoObservation == [owner |-> "nobody"]

\* n callbacks scheduled by code running with store `active`
Scheduled(owner, depth, active, n) ==
    { [id |-> nextCb + i, owner |-> owner, depth |-> depth,
       store |-> CaptureStore(active, depth)] : i \in 0..(n - 1) }

CanSchedule(n) == nextCb + n - 1 <= MaxCallbacks

\* xavenContextMiddleware(req, res, next), lines 31-57.  next() reads the
\* context and schedules n deferred callbacks.
Middleware(r, incoming, reqUserId, fresh, n) ==
    /\ established[r].kind = "undefined"
    /\ CanSchedule(n)
    /\ LET correlationId == CorrelationIdFor(incoming, fresh)
           contextData == XavenContextData(correlationId, UserIdFor(reqUserId))
       IN /\ established' = [established EXCEPT ![r] = contextData]
          /\ usedIds' = IF HeaderUsable(incoming) THEN usedIds
                        ELSE usedIds \cup {fresh}
          /\ inbound' = [req |-> r, header |-> incoming, userId |-> reqUserId]
          /\ obs' = Observation(r, 0, contextData)
          /\ pending' = pending \cup Scheduled(r, 1, contextData, n)
          /\ nextCb' = nextCb + n
          /\ currentStore' = StoreAfterRun(currentStore, contextData)

\* The event loop runs a pending callback; it reads the context and schedules
\* n further callbacks.
RunCallback(cb, n) ==
    /\ cb \in pending
    /\ CanSchedule(n)
    /\ n > 0 => cb.depth < MaxDepth
    /\ LET active == CallbackStore(cb, currentStore)
       IN /\ obs' = Observation(cb.owner, cb.depth, active)
          /\ pending' = (pending \ {cb})
                            \cup Scheduled(cb.owner, cb.depth + 1, active, n)
          /\ nextCb' = nextCb + n
    /\ UNCHANGED <<established, currentStore, usedIds, inbound>>

\* Code that descends from no next() call (module top level, a server event
\* before the middleware, code after the middleware returned).
OutsideCode(n) ==
    /\ CanSchedule(n)
    /\ obs' = Observation(Outside, 0, currentStore)
    /\ pending' = pending \cup Scheduled(Outside, 1, currentStore, n)
    /\ nextCb' = nextCb + n
    /\ UNCHANGED <<established, currentStore, usedIds, inbound>>

-----------------------------------------------------------------------------
(* xaven-factory.ts *)

stdTTL == 10             \* new NodeCache({ stdTTL: 10, ... }), seconds
checkperiod == 20        \* new NodeCache({ ..., checkperiod: 20 }), seconds
ConcurrencyLimit == 3    \* pLimit(3)

MaxFetches == 5          \* fetchWithCache calls in one behaviour of Spec
MaxBulk == 3             \* ids in one getPostsInBulk call of Spec
MaxFairFetches == 4      \* fetchWithCache calls in one behaviour of FairSpec
MaxTtlFetches == 3       \* the same two bounds where the clock runs (SpecTtl)
MaxTtlBulk == 2
MaxBulkFetches == 4      \* fetchWithCache calls where bulk calls are recorded (SpecBulk)
MaxMixedFetches == 3     \* fetchWithCache calls next to the domain clients (SpecMixed)
TickStep == 5            \* seconds between two readings of the clock
MaxTime == 25            \* the clock stops here

PostIds == {1, 23}

\* response.data of the upstream call made by task k: null, or a JSON body
\* (tagged with k: two calls may be answered with different bodies)
Post(x) == [kind |-> "object", val |-> x]
Values(k) == { Null, Post(k) }
UpstreamError == [kind |-> "error", val |-> "upstream"]

Digit == <<"0", "1", "2", "3", "4", "5", "6", "7", "8", "9">>
RECURSIVE Decimal(_)
Decimal(n) ==
    IF n < 10 THEN <<Digit[n + 1]>>
    ELSE Decimal(n \div 10) \o <<Digit[(n % 10) + 1]>>

\* line 36, and line 94: `${EXTERNAL_API_URL}/${id}`
EXTERNAL_API_URL == <<"https://api.xavenai.com", "/">>
PostUrl(id) == EXTERNAL_API_URL \o <<"/">> \o Decimal(id)
Urls == {PostUrl(id) : id \in PostIds}

(* node-cache.  An entry is { v: value, t: expiry time }; _wrap sets         *)
(* t = Date.now() + ttl, and _check, called by get and by the periodic       *)
(* _checkData, deletes the entry when t < Date.now().                        *)
NoEntry == [kind |-> "none"]
Entry(v, t) == [kind |-> "entry", v |-> v, t |-> t]

Livetime(t) == t + stdTTL

ExpiredOnlyBySweep(e, t) == FALSE
Expired(e, t) == e.t # 0 /\ e.t < t

Live(e, t) == e.kind = "entry" /\ ~Expired(e, t)

\* cache.get(url): the value of a live entry, undefined otherwise
CacheGet(c, url, t) == IF Live(c[url], t) THEN c[url].v ELSE Undefined
\* ... and get deletes the entry it finds expired
CacheAfterGetTouch(c, url, t) ==
    IF Live(c[url], t) THEN [c EXCEPT ![url] = Entry(c[url].v, Livetime(t))]
    ELSE [c EXCEPT ![url] = NoEntry]
CacheAfterGet(c, url, t) ==
    IF Live(c[url], t) THEN c ELSE [c EXCEPT ![url] = NoEntry]
\* cache.set(url, value)
CacheSet(c, url, v, t) == [c EXCEPT ![url] = Entry(v, Livetime(t))]
\* _checkData, every checkperiod seconds: it deletes what has expired,
\* whether or not a get has looked at it
CacheSweep(c, t) ==
    [u \in DOMAIN c |->
        IF c[u].kind = "entry" /\ c[u].t # 0 /\ c[u].t < t THEN NoEntry ELSE c[u]]

(* p-limit.  limit(fn) runs fn at once when fewer than `concurrency` tasks   *)
(* are active and appends it to the queue otherwise; when a task settles     *)
(* (result.then(next, next)) next() decrements activeCount and starts the    *)
(* head of the queue.                                                        *)
HasSlotOffByOne(active) == active <= ConcurrencyLimit
HasSlot(active) == active < ConcurrencyLimit

DequeueNewest(q) == [task |-> q[Len(q)], rest |-> SubSeq(q, 1, Len(q) - 1)]
Dequeue(q) == [task |-> Head(q), rest |-> Tail(q)]

\* The fetch engine's state as one value; lookups describes one step and
\* starts empty in each.
Engine == [cache |-> cache, activeCount |-> activeCount, queue |-> queue,
           tasks |-> tasks, lookups |-> <<>>, dequeued |-> dequeued]

\* run(fn): the task's body starts and suspends at `await axios.get(url)`
Run(g, k) ==
    [g EXCEPT !.activeCount = @ + 1,
              !.tasks[k].pc = "running",
              !.tasks[k].upstream = @ + 1]

\* limit(fn) for the task k just created
Limit(g, k) ==
    IF HasSlot(g.activeCount) THEN Run(g, k)
    ELSE [g EXCEPT !.queue = Append(@, k)]

\* next(), after task k settled
StartNextRecheck(g) ==
    IF g.queue = <<>> THEN g
    ELSE LET k == Dequeue(g.queue).task
             cached == CacheGet(g.cache, g.tasks[k].url, now)
             g1 == [g EXCEPT !.queue = Dequeue(g.queue).rest, !.dequeued = k]
         IN IF Truthy(cached)
            THEN [g1 EXCEPT !.tasks[k].pc = "hit", !.tasks[k].result = cached]
            ELSE Run(g1, k)
StartNext(g) ==
    IF g.queue = <<>> THEN g
    ELSE Run([g EXCEPT !.queue = Dequeue(g.queue).rest,
                       !.dequeued = Dequeue(g.queue).task],
             Dequeue(g.queue).task)

ReleaseNoDequeue(g, k) ==
    [g EXCEPT !.activeCount = @ - 1, !.tasks[k].released = @ + 1]
ReleaseOnSuccessOnly(g, k) ==
    IF g.tasks[k].pc = "rejected" THEN g
    ELSE StartNext([g EXCEPT !.activeCount = @ - 1, !.tasks[k].released = @ + 1])
Release(g, k) ==
    StartNext([g EXCEPT !.activeCount = @ - 1, !.tasks[k].released = @ + 1])

\* fetchWithCache(url) at time t, lines 72-88, up to its first suspension.
\* A task counts its upstream calls (upstream) and the times next() ran for
\* it (released).
\* The lookup record keeps what cache.get saw: the entry it found (found),
\* what it returned (cached) and when (at).
FetchWithCache(g, url, t) ==
    LET cached == CacheGet(g.cache, url, t)
        k == Len(g.tasks) + 1
        task == [ url |-> url,
                  pc |-> IF Truthy(cached) THEN "hit" ELSE "queued",
                  result |-> IF Truthy(cached) THEN cached ELSE Undefined,
                  upstream |-> 0, released |-> 0 ]
        lookup == [ task |-> k, url |-> url, at |-> t,
                    found |-> g.cache[url], cached |-> cached ]
        g1 == [g EXCEPT !.cache = CacheAfterGet(g.cache, url, t),
                        !.tasks = Append(@, task),
                        !.lookups = Append(@, lookup)]
    IN IF Truthy(cached) THEN g1 ELSE Limit(g1, k)

\* getPostsInBulk(ids), lines 103-106: ids.map calls getPostById, and with it
\* fetchWithCache up to its first suspension, for each id in order.
RECURSIVE FetchAllReversed(_, _, _)
FetchAllReversed(g, ids, t) ==
    IF ids = <<>> THEN g
    ELSE FetchWithCache(FetchAllReversed(g, Tail(ids), t), PostUrl(Head(ids)), t)
RECURSIVE FetchAll(_, _, _)
FetchAll(g, ids, t) ==
    IF ids = <<>> THEN g
    ELSE FetchAll(FetchWithCache(g, PostUrl(Head(ids)), t), Tail(ids), t)

SetEngine(g) ==
    /\ cache' = g.cache
    /\ activeCount' = g.activeCount
    /\ queue' = g.queue
    /\ tasks' = g.tasks
    /\ lookups' = g.lookups
    /\ dequeued' = g.dequeued

\* getPostById(id), lines 93-98
GetPostById(id, max) ==
    /\ Len(tasks) < max
    /\ SetEngine(FetchWithCache(Engine, PostUrl(id), now))
    /\ UNCHANGED <<now, bulk>>

NoBulk == [first |-> 0, ids |-> <<>>]

\* getPostsInBulk(ids), lines 103-106
GetPostsInBulk(ids, max) ==
    /\ Len(tasks) + Len(ids) <= max
    /\ SetEngine(FetchAll(Engine, ids, now))
    /\ UNCHANGED now

\* The same, and the call is recorded: its promises are those of the tasks
\* first, first + 1, ..., one per id.
RecordedGetPostsInBulk(ids, max) ==
    /\ GetPostsInBulk(ids, max)
    /\ bulk' = [first |-> Len(tasks) + 1, ids |-> ids]

\* The promises of bulk call b (line 104), as the tasks stand
Promises(b, ts) == [i \in 1..Len(b.ids) |-> ts[b.first + i - 1]]

\* Promise.all(promises), line 105: pending while a promise is and none has
\* rejected, rejected once one has, and otherwise fulfilled with the values
\* of the promises in the order of the promises.
PromiseAll(promises) ==
    IF \E i \in DOMAIN promises : promises[i].pc = "rejected"
    THEN [state |-> "rejected"]
    ELSE IF \E i \in DOMAIN promises : promises[i].pc \in {"queued", "running"}
    THEN [state |-> "pending"]
    ELSE [state |-> "fulfilled",
          value |-> [i \in DOMAIN promises |-> promises[i].result]]

\* axios.get of running task k answers with body v: lines 85-86, then next()
UpstreamSucceed(k, v) ==
    /\ k \in DOMAIN tasks
    /\ tasks[k].pc = "running"
    /\ SetEngine(Release([Engine EXCEPT
                              !.cache = CacheSet(@, tasks[k].url, v, now),
                              !.tasks[k].pc = "resolved",
                              !.tasks[k].result = v], k))
    /\ UNCHANGED <<now, bulk>>

\* `await axios.get(url)` throws err inside the task: nothing catches it,
\* lines 85-86 are skipped and the promise fetchWithCache returned rejects
\* with err.
RejectAndCache(g, k, err) ==
    [g EXCEPT !.cache = CacheSet(@, g.tasks[k].url, err, 0),
              !.tasks[k].pc = "rejected",
              !.tasks[k].result = err]
Reject(g, k, err) ==
    [g EXCEPT !.tasks[k].pc = "rejected", !.tasks[k].result = err]

\* axios.get of running task k fails: the task rejects, then next()
UpstreamFail(k) ==
    /\ k \in DOMAIN tasks
    /\ tasks[k].pc = "running"
    /\ SetEngine(Release(Reject(Engine, k, UpstreamError), k))
    /\ UNCHANGED <<now, bulk>>

\* time passes
Tick ==
    /\ now + TickStep <= MaxTime
    /\ now' = now + TickStep
    /\ lookups' = <<>>
    /\ UNCHANGED <<cache, activeCount, queue, tasks, dequeued, bulk>>

\* node-cache's checkperiod timer fires
Sweep ==
    /\ now > 0
    /\ now % checkperiod = 0
    /\ cache' = CacheSweep(cache, now)
    /\ lookups' = <<>>
    /\ UNCHANGED <<now, activeCount, queue, tasks, dequeued, bulk>>

-----------------------------------------------------------------------------
(* xaven-ai-engine.ts (src/unnamed/part_001, lines 409-525) and               *)
(* xaven-purchase-optimizer.ts                                               *)

MaxCalls == 1            \* parseUserQuery / optimizePurchase invocations
MaxRetryCount == 3       \* largest retryCount a constructor is given

Num(n) == [kind |-> "number", val |-> n]
Bool(b) == [kind |-> "boolean", val |-> b]

\* a ?? b
Coalesce(a, b) == IF a.kind \in {"undefined", "null"} THEN b ELSE a

DefaultRetryCount == 2   \* retryCount: config?.retryCount ?? 2
English == Str(<<"e", "n">>)
Spanish == Str(<<"e", "s">>)

ClientKinds == {"ai", "optimizer"}
NoClients == [c \in ClientKinds |-> Undefined]

RetryCountInputs == {Undefined} \cup {Num(n) : n \in 0..MaxRetryCount}
LanguageInputs == {Undefined, Str(<<>>), Spanish}

\* new XavenAiEngine(config), part_001 lines 442-450
XavenAiEngineConfig(retryCount, defaultLanguage) ==
    [ kind |-> "config",
      defaultLanguage |-> Coalesce(defaultLanguage, English),
      retryCount |-> Coalesce(retryCount, Num(DefaultRetryCount)).val ]

\* new XavenPurchaseOptimizer(config), xaven-purchase-optimizer.ts lines 45-54
XavenPurchaseOptimizerConfig(retryCount, concurrencyOverride, enableCacheInvalidation) ==
    [ kind |-> "config",
      concurrencyOverride |-> Coalesce(concurrencyOverride, Undefined),
      enableCacheInvalidation |-> Coalesce(enableCacheInvalidation, Bool(FALSE)),
      retryCount |-> Coalesce(retryCount, Num(DefaultRetryCount)).val ]

\* The payload both clients post.  correlationId is uuidv4() (`fresh`): the
\* clients do not read the context store.
AiPayloadNullish(fresh, userQuery, preferredLanguage, config) ==
    [ correlationId |-> fresh,
      userQuery |-> userQuery,
      language |-> Coalesce(preferredLanguage, config.defaultLanguage) ]
AiPayload(fresh, userQuery, preferredLanguage, config) ==
    [ correlationId |-> fresh,
      userQuery |-> userQuery,
      \* preferredLanguage || this.state.config.defaultLanguage
      language |-> IF Truthy(preferredLanguage) THEN preferredLanguage
                   ELSE config.defaultLanguage ]

OptimizerPayload(fresh, aiParsed, userId, config) ==
    [ correlationId |-> fresh,
      userId |-> userId,
      payload |-> [ aiParsed |-> aiParsed,
                    concurrency |-> config.concurrencyOverride,
                    cacheInvalidation |-> config.enableCacheInvalidation ] ]

\* The terminal error thrown after the loop
TerminalError(client, retryCount, lastError) ==
    [ kind |-> "error", client |-> client, attempts |-> retryCount,
      \* lastError?.message
      last |-> IF lastError.kind = "undefined" THEN Undefined ELSE lastError.message ]

\* the error of post number n of invocation i
RemoteError(i, n) == [kind |-> "error", message |-> <<"failed", i, n>>]

\* while (attempts < retryCount): the loop posts again or gives up
LoopStepFreshIdPerAttempt(call, retryCount) ==
    IF call.attempts < retryCount
    THEN [call EXCEPT !.pc = "posting",
                      !.posts = Append(@, [call.payload EXCEPT
                          !.correlationId = UuidSeq[(call.attempts % Len(UuidSeq)) + 1]])]
    ELSE [call EXCEPT !.pc = "threw",
                      !.result = TerminalError(call.client, retryCount, call.lastError)]
LoopStepGated(call, retryCount) ==
    IF call.attempts < retryCount
    THEN IF activeCount < ConcurrencyLimit
         THEN [call EXCEPT !.pc = "posting", !.posts = Append(@, call.payload)]
         ELSE [call EXCEPT !.pc = "queued"]
    ELSE [call EXCEPT !.pc = "threw",
                      !.result = TerminalError(call.client, retryCount, call.lastError)]
LoopStepGivesUpEarly(call, retryCount) ==
    IF call.attempts + 1 < retryCount
    THEN [call EXCEPT !.pc = "posting", !.posts = Append(@, call.payload)]
    ELSE [call EXCEPT !.pc = "threw",
                      !.result = TerminalError(call.client, retryCount, call.lastError)]
LoopStepOneMore(call, retryCount) ==
    IF call.attempts <= retryCount
    THEN [call EXCEPT !.pc = "posting", !.posts = Append(@, call.payload)]
    ELSE [call EXCEPT !.pc = "threw",
                      !.result = TerminalError(call.client, retryCount, call.lastError)]
LoopStep(call, retryCount) ==
    IF call.attempts < retryCount
    THEN [call EXCEPT !.pc = "posting", !.posts = Append(@, call.payload)]
    ELSE [call EXCEPT !.pc = "threw",
                      !.result = TerminalError(call.client, retryCount, call.lastError)]

\* A caller: a pending callback, or code outside every request scope.
OutsideCaller == [id |-> 0, owner |-> Outside, depth |-> 0, store |-> NoContext]
ActiveStore(caller) ==
    IF caller = OutsideCaller THEN currentStore ELSE CallbackStore(caller, currentStore)

\* The invocation up to its first suspension.  args are the arguments of the
\* invocation, and scope records what getCorrelationId() returns for the
\* caller at that moment.
Invoke(client, caller, args, payload) ==
    /\ Len(calls) < MaxCalls
    /\ clients[client] # Undefined
    /\ caller = OutsideCaller \/ caller \in pending
    /\ calls' = Append(calls,
          LoopStep([ client |-> client, args |-> args, payload |-> payload,
                     scope |-> getCorrelationId(ActiveStore(caller)),
                     attempts |-> 0, lastError |-> Undefined,
                     posts |-> <<>>, pc |-> "called", result |-> Undefined ],
                   clients[client].retryCount))
    /\ pending' = pending \ {caller}
    /\ usedIds' = usedIds \cup {payload.correlationId}
    /\ UNCHANGED <<established, nextCb, currentStore, obs, inbound, clients>>

\* parseUserQuery(userQuery, preferredLanguage), part_001 lines 490-524
ParseUserQuery(caller, userQuery, preferredLanguage, fresh) ==
    Invoke("ai", caller,
           [userQuery |-> userQuery, preferredLanguage |-> preferredLanguage],
           AiPayload(fresh, userQuery, preferredLanguage, clients["ai"]))

\* optimizePurchase(aiParsed, userId), xaven-purchase-optimizer.ts lines 93-132
OptimizePurchase(caller, aiParsed, userId, fresh) ==
    Invoke("optimizer", caller,
           [aiParsed |-> aiParsed, userId |-> userId],
           OptimizerPayload(fresh, aiParsed, userId, clients["optimizer"]))

\* this.state.client.post resolves: return response.data
PostSucceed(i, data) ==
    /\ i \in DOMAIN calls
    /\ calls[i].pc = "posting"
    /\ calls' = [calls EXCEPT ![i].pc = "returned", ![i].result = data]
    /\ UNCHANGED <<ctxVars, clients>>

\* this.state.client.post rejects: attempts++, lastError = err, loop again
PostFail(i, err) ==
    /\ i \in DOMAIN calls
    /\ calls[i].pc = "posting"
    /\ calls' = [calls EXCEPT ![i] =
          LoopStep([@ EXCEPT !.attempts = @ + 1, !.lastError = err],
                   clients[calls[i].client].retryCount)]
    /\ UNCHANGED <<ctxVars, clients>>

\* response.data of the post number n of invocation i
ResponseData(i, n) == [kind |-> "object", val |-> <<i, n>>]

-----------------------------------------------------------------------------
(* xaven-factory.ts: GET /post-by-id and the error middleware *)

MaxRouteRequests == 3    \* GET /post-by-id requests in one behaviour

\* req.query.postId: missing, repeated (an array), or a string
QueryValues ==
    { Undefined, StrArray, Str(<<>>), Str(<<"a">>), Str(<<"-", "1">>),
      Str(<<"1">>), Str(<<"2", "3">>), Str(<<"0", "1">>) }

\* response.data of the upstream call of task k, here also a falsy body that
\* is not null
RouteValues(k) == { Null, Bool(FALSE), Post(k) }

\* postByIdQuerySchema, lines 56-58: z.string().regex(/^\d+$/)
DigitChars == {Digit[i] : i \in DOMAIN Digit}
IsNumericString(v) ==
    IsString(v) /\ Len(v.val) > 0 /\ \A i \in 1..Len(v.val) : v.val[i] \in DigitChars

\* parseInt(postId, 10) of a string of digits
DigitValue(c) == CHOOSE d \in 0..9 : Digit[d + 1] = c
RECURSIVE ParseInt(_)
ParseInt(str) ==
    IF Len(str) = 1 THEN DigitValue(str[1])
    ELSE ParseInt(SubSeq(str, 1, Len(str) - 1)) * 10 + DigitValue(str[Len(str)])

ZodError == [kind |-> "ZodError"]
XavenError(message, statusCode) ==
    [kind |-> "XavenError", message |-> message, statusCode |-> statusCode]
NotFoundMessage(postId) == <<"Post with ID ">> \o postId.val \o <<" not found">>

\* the error handling middleware, lines 147-172
ErrorMiddlewareStatusLost(error) ==
    IF error.kind = "ZodError"
    THEN [status |-> 400, error |-> <<"Validation failed">>]
    ELSE [status |-> 500, error |-> <<"Internal Server Error">>]
ErrorMiddleware(error) ==
    IF error.kind = "XavenError"
    THEN [status |-> error.statusCode, error |-> error.message]
    ELSE IF error.kind = "ZodError"
    THEN [status |-> 400, error |-> <<"Validation failed">>]
    ELSE [status |-> 500, error |-> <<"Internal Server Error">>]

NoReply == [status |-> 0]

\* What the handler of request h (lines 111-127) has answered, as the tasks
\* ts stand: nothing while it awaits getPostById.
PostByIdReply(h, ts) ==
    IF ~IsNumericString(h.postId) THEN ErrorMiddleware(ZodError)
    ELSE LET task == ts[h.task]
         IN IF task.pc \in {"queued", "running"} THEN NoReply
            ELSE IF task.pc = "rejected" THEN ErrorMiddleware(task.result)
            ELSE IF ~Truthy(task.result)
            THEN ErrorMiddleware(XavenError(NotFoundMessage(h.postId), 404))
            ELSE [status |-> 200, data |-> task.result]

\* GET /post-by-id?postId=..., lines 111-127, up to the first suspension
PostByIdRoute(postId) ==
    /\ Len(http) < MaxRouteRequests
    /\ IF IsNumericString(postId)
       THEN /\ GetPostById(ParseInt(postId.val), MaxRouteRequests)
            /\ http' = Append(http, [postId |-> postId, task |-> Len(tasks) + 1])
       ELSE /\ http' = Append(http, [postId |-> postId, task |-> 0])
            /\ lookups' = <<>>
            /\ UNCHANGED <<now, cache, activeCount, queue, tasks, dequeued, bulk>>

RouteSettle(k) ==
    \/ \E v \in RouteValues(k) :
          UpstreamSucceed(k, v) /\ UNCHANGED <<ctxVars, clientVars, routeVars, injVars>>
    \/ UpstreamFail(k) /\ UNCHANGED <<ctxVars, clientVars, routeVars, injVars>>

NextRoute ==
    \/ \E postId \in QueryValues :
          PostByIdRoute(postId) /\ UNCHANGED <<ctxVars, clientVars, injVars>>
    \/ \E k \in 1..MaxRouteRequests : RouteSettle(k)

-----------------------------------------------------------------------------
(* interfaces/dependency-injector.ts                                         *)
(* (src/packages/core/interfaces/dependency-injector.ts)                     *)

MaxFactoryCalls == 2

\* Token<T> = string | symbol
Tokens == {"logger", "config"}

\* what a factory may return: T is unconstrained
Service == [kind |-> "object", name |-> "service"]
FactoryValues == {Service, Null, Num(0)}

\* the factory functions handed to the providers
Factories == {"makeLogger", "makeConfig"}

\* new ValueProvider(value), new SingletonProvider(factory),
\* new FactoryProvider(factory): the provider objects of this model
ValueProvider(value) ==
    [kind |-> "object", class |-> "ValueProvider", of |-> value]
SingletonProvider(factory) ==
    [kind |-> "object", class |-> "SingletonProvider", of |-> Str(<<factory>>)]
FactoryProvider(factory) ==
    [kind |-> "object", class |-> "FactoryProvider", of |-> Str(<<factory>>)]
FactoryOf(p) == p.of.val[1]

DependencyProviders ==
    { ValueProvider(Service), ValueProvider(Num(0)),
      SingletonProvider("makeLogger"), FactoryProvider("makeConfig") }
Singletons == {p \in DependencyProviders : p.class = "SingletonProvider"}

\* Map.get of a token never set
NoProvider == Undefined

NoInjectorCall == [op |-> "none"]

\* provider.get() when its factory, if invoked, returns v: the provider's
\* state after the call, the value returned, and whether the factory ran.
\* ValueProvider.get, lines 33-35; SingletonProvider.get, lines 41-46;
\* FactoryProvider.get, lines 51-53.
Get(p, inst, v) ==
    IF p.class = "ValueProvider"
    THEN [instance |-> inst, value |-> p.of, invoked |-> FALSE]
    ELSE IF p.class = "FactoryProvider"
    THEN [instance |-> inst, value |-> v, invoked |-> TRUE]
    ELSE IF ~Truthy(inst[p])
    THEN [instance |-> [inst EXCEPT ![p] = v], value |-> v, invoked |-> TRUE]
    ELSE [instance |-> inst, value |-> inst[p], invoked |-> FALSE]

\* the factory of p may be invoked once more within the bound
CanInvoke(p) ==
    IF p.class = "ValueProvider" THEN TRUE
    ELSE Len(produced[FactoryOf(p)]) < MaxFactoryCalls

\* the effect of provider.get() on the provider and on the history
ApplyGet(p, g) ==
    /\ instance' = g.instance
    /\ produced' = IF g.invoked
                   THEN [produced EXCEPT ![FactoryOf(p)] = Append(@, g.value)]
                   ELSE produced

\* injector.register(token, provider), lines 15-20
RegisterOverwrites(token, p) ==
    /\ providers' = [providers EXCEPT ![token] = p]
    /\ di' = [op |-> "register", token |-> token, provider |-> p,
              outcome |-> "returned", value |-> Undefined]
    /\ UNCHANGED <<instance, produced>>
Register(token, p) ==
    /\ IF providers[token] # NoProvider
       THEN /\ di' = [op |-> "register", token |-> token, provider |-> p,
                      outcome |-> "threw", value |-> Undefined]
            /\ UNCHANGED providers
       ELSE /\ providers' = [providers EXCEPT ![token] = p]
            /\ di' = [op |-> "register", token |-> token, provider |-> p,
                      outcome |-> "returned", value |-> Undefined]
    /\ UNCHANGED <<instance, produced>>

\* injector.resolve(token), lines 22-28; v is what the factory returns if
\* provider.get() invokes it
Resolve(token, v) ==
    LET provider == providers[token] IN
    IF ~Truthy(provider)
    THEN /\ di' = [op |-> "resolve", token |-> token, provider |-> provider,
                   outcome |-> "threw", value |-> Undefined]
         /\ UNCHANGED <<providers, instance, produced>>
    ELSE LET g == Get(provider, instance, v) IN
         /\ CanInvoke(provider)
         /\ ApplyGet(provider, g)
         /\ di' = [op |-> "resolve", token |-> token, provider |-> provider,
                   outcome |-> "returned", value |-> g.value]
         /\ UNCHANGED providers

\* provider.get() called on a provider directly
ProviderGet(p, v) ==
    LET g == Get(p, instance, v) IN
    /\ CanInvoke(p)
    /\ ApplyGet(p, g)
    /\ di' = [op |-> "get", token |-> "", provider |-> p,
              outcome |-> "returned", value |-> g.value]
    /\ UNCHANGED providers

InitInjector ==
    /\ providers = [t \in Tokens |-> NoProvider]
    /\ instance = [p \in Singletons |-> Null]
    /\ produced = [f \in Factories |-> <<>>]
    /\ di = NoInjectorCall

NextInjector ==
    \/ \E token \in Tokens, p \in DependencyProviders :
          Register(token, p) /\ UNCHANGED <<ctxVars, fetchVars, clientVars, routeVars>>
    \/ \E token \in Tokens, v \in FactoryValues :
          Resolve(token, v) /\ UNCHANGED <<ctxVars, fetchVars, clientVars, routeVars>>
    \/ \E p \in DependencyProviders, v \in FactoryValues :
          ProviderGet(p, v) /\ UNCHANGED <<ctxVars, fetchVars, clientVars, routeVars>>

InitCtx ==
    /\ established = [r \in Requests |-> NoContext]
    /\ pending = {}
    /\ nextCb = 1
    /\ currentStore = NoContext
    /\ obs = NoObservation
    /\ usedIds = {}
    /\ inbound = NoRequest

InitFetch ==
    /\ now = 0
    /\ cache = [u \in Urls |-> NoEntry]
    /\ activeCount = 0
    /\ queue = <<>>
    /\ tasks = <<>>
    /\ lookups = <<>>
    /\ dequeued = 0
    /\ bulk = NoBulk
    /\ http = <<>>

InitCalls == clients = NoClients /\ calls = <<>>

Init == InitCtx /\ InitFetch /\ InitCalls /\ InitInjector

NextCtx ==
    \/ \E r \in Requests, incoming \in HeaderValues, reqUserId \in UserIdValues,
          fresh \in NextUuid(usedIds), n \in 0..MaxSpawn :
            Middleware(r, incoming, reqUserId, fresh, n) /\ UNCHANGED <<fetchVars, clientVars, routeVars, injVars>>
    \/ \E cb \in pending, n \in 0..MaxSpawn :
            RunCallback(cb, n) /\ UNCHANGED <<fetchVars, clientVars, routeVars, injVars>>
    \/ \E n \in 0..MaxSpawn :
            OutsideCode(n) /\ UNCHANGED <<fetchVars, clientVars, routeVars, injVars>>

SpecCtx == Init /\ [][NextCtx]_vars

SpecRoute == Init /\ [][NextRoute]_vars

SpecInjector == Init /\ [][NextInjector]_vars

RECURSIVE SeqsUpTo(_, _)
SeqsUpTo(S, n) ==
    IF n = 0 THEN {<<>>}
    ELSE LET shorter == SeqsUpTo(S, n - 1)
         IN shorter \cup {Append(q, x) : q \in shorter, x \in S}
BulkInputs(n) == SeqsUpTo(PostIds, n) \ {<<>>}

Settle(k) ==
    \/ \E v \in Values(k) : UpstreamSucceed(k, v) /\ UNCHANGED <<ctxVars, clientVars, routeVars, injVars>>
    \/ UpstreamFail(k) /\ UNCHANGED <<ctxVars, clientVars, routeVars, injVars>>

\* The fetch engine with the clock standing still.
Next ==
    \/ \E id \in PostIds :
          GetPostById(id, MaxFetches) /\ UNCHANGED <<ctxVars, clientVars, routeVars, injVars>>
    \/ \E ids \in BulkInputs(MaxBulk) :
          GetPostsInBulk(ids, MaxFetches) /\ UNCHANGED <<bulk, ctxVars, clientVars, routeVars, injVars>>
    \/ \E k \in 1..MaxFetches : Settle(k)

Spec == Init /\ [][Next]_vars

\* The same with fewer fetches, and every upstream call settles: the HTTP
\* client answers or fails.
NextFair ==
    \/ \E id \in PostIds :
          GetPostById(id, MaxFairFetches) /\ UNCHANGED <<ctxVars, clientVars, routeVars, injVars>>
    \/ \E ids \in BulkInputs(MaxBulk) :
          GetPostsInBulk(ids, MaxFairFetches) /\ UNCHANGED <<bulk, ctxVars, clientVars, routeVars, injVars>>
    \/ \E k \in 1..MaxFairFetches : Settle(k)

FairSpec ==
    Init /\ [][NextFair]_vars /\ \A k \in 1..MaxFairFetches : WF_vars(Settle(k))

\* The fetch engine with the clock running.
NextTtl ==
    \/ \E id \in PostIds :
          GetPostById(id, MaxTtlFetches) /\ UNCHANGED <<ctxVars, clientVars, routeVars, injVars>>
    \/ \E ids \in BulkInputs(MaxTtlBulk) :
          GetPostsInBulk(ids, MaxTtlFetches) /\ UNCHANGED <<bulk, ctxVars, clientVars, routeVars, injVars>>
    \/ \E k \in 1..MaxTtlFetches : Settle(k)
    \/ Tick /\ UNCHANGED <<ctxVars, clientVars, routeVars, injVars>>
    \/ Sweep /\ UNCHANGED <<ctxVars, clientVars, routeVars, injVars>>

SpecTtl == Init /\ [][NextTtl]_vars

\* The fetch engine with the latest bulk call recorded.
NextBulk ==
    \/ \E id \in PostIds :
          GetPostById(id, MaxBulkFetches) /\ UNCHANGED <<ctxVars, clientVars, routeVars, injVars>>
    \/ \E ids \in BulkInputs(MaxBulk) :
          RecordedGetPostsInBulk(ids, MaxBulkFetches) /\ UNCHANGED <<ctxVars, clientVars, routeVars, injVars>>
    \/ \E k \in 1..MaxBulkFetches : Settle(k)

SpecBulk == Init /\ [][NextBulk]_vars

\* The domain clients, called from request scopes and from outside.
NextClient ==
    \/ \E r \in Requests, incoming \in {Undefined, Str(<<"a">>)},
          fresh \in NextUuid(usedIds) :
            Middleware(r, incoming, Undefined, fresh, 1) /\ UNCHANGED <<fetchVars, clientVars, routeVars, injVars>>
    \/ \E caller \in pending \cup {OutsideCaller}, preferredLanguage \in LanguageInputs,
          fresh \in NextUuid(usedIds) :
            ParseUserQuery(caller, Str(<<"q">>), preferredLanguage, fresh)
                /\ UNCHANGED <<fetchVars, routeVars, injVars>>
    \/ \E caller \in pending \cup {OutsideCaller}, userId \in {Undefined, Str(<<"u", "1">>)},
          fresh \in NextUuid(usedIds) :
            OptimizePurchase(caller, [category |-> "laptop"], userId, fresh)
                /\ UNCHANGED <<fetchVars, routeVars, injVars>>
    \/ \E i \in 1..MaxCalls :
            PostSucceed(i, ResponseData(i, Len(calls[i].posts))) /\ UNCHANGED <<fetchVars, routeVars, injVars>>
    \/ \E i \in 1..MaxCalls :
            PostFail(i, RemoteError(i, Len(calls[i].posts))) /\ UNCHANGED <<fetchVars, routeVars, injVars>>

\* Both clients are constructed before the first request.
InitClient ==
    /\ InitCtx
    /\ InitFetch
    /\ InitInjector
    /\ calls = <<>>
    /\ \E retryCount \in RetryCountInputs, defaultLanguage \in {Undefined, Spanish} :
          clients = [c \in ClientKinds |->
                        IF c = "ai"
                        THEN XavenAiEngineConfig(retryCount, defaultLanguage)
                        ELSE XavenPurchaseOptimizerConfig(retryCount, Undefined, Undefined)]

SpecClient == InitClient /\ [][NextClient]_vars

\* The fetch engine and the domain clients side by side in one process; the
\* clients are constructed without a config.
NextMixed ==
    \/ \E id \in PostIds :
          GetPostById(id, MaxMixedFetches) /\ UNCHANGED <<ctxVars, clientVars, routeVars, injVars>>
    \/ \E k \in 1..MaxMixedFetches : Settle(k)
    \/ \E fresh \in NextUuid(usedIds) :
          ParseUserQuery(OutsideCaller, Str(<<"q">>), Undefined, fresh)
              /\ UNCHANGED <<fetchVars, routeVars, injVars>>
    \/ \E fresh \in NextUuid(usedIds) :
          OptimizePurchase(OutsideCaller, [category |-> "laptop"], Undefined, fresh)
              /\ UNCHANGED <<fetchVars, routeVars, injVars>>
    \/ \E i \in 1..MaxCalls :
          PostSucceed(i, ResponseData(i, Len(calls[i].posts))) /\ UNCHANGED <<fetchVars, routeVars, injVars>>
    \/ \E i \in 1..MaxCalls :
          PostFail(i, RemoteError(i, Len(calls[i].posts))) /\ UNCHANGED <<fetchVars, routeVars, injVars>>

InitMixed ==
    /\ InitCtx
    /\ InitFetch
    /\ InitInjector
    /\ calls = <<>>
    /\ clients = [c \in ClientKinds |->
                     IF c = "ai"
                     THEN XavenAiEngineConfig(Undefined, Undefined)
                     ELSE XavenPurchaseOptimizerConfig(Undefined, Undefined, Undefined)]

SpecMixed == InitMixed /\ [][NextMixed]_vars

-----------------------------------------------------------------------------
(* Properties of the context store (SpecCtx) *)

\* C1. Context isolation: whatever code descended from request R's next()
\* reads through getCorrelationId / getUserId (directly or in a deferred
\* callback, with callbacks of the other request pending in between) is R's
\* value, and it is never the correlation id or the context of another
\* request that has a different correlation id.
ContextIsolation ==
    obs.owner \in Requests =>
        /\ obs.correlationId = Str(established[obs.owner].correlationId)
        /\ obs.userId = established[obs.owner].userId
        /\ \A other \in Requests \ {obs.owner} :
              ( /\ established[other].kind = "context"
                /\ established[other].correlationId
                      # established[obs.owner].correlationId )
              => /\ obs.correlationId # Str(established[other].correlationId)
                 /\ obs.context # established[other]

\* A deferred callback of request R1 reads its context while request R2, with
\* a different correlation id, has callbacks pending.
ContextIsolationWitness ==
    /\ obs.owner = "R1"
    /\ obs.depth >= 1
    /\ "R2" \in obs.concurrent
    /\ established["R2"].kind = "context"
    /\ established["R2"].correlationId # established["R1"].correlationId

\* C2. Context propagation: in next() and in every callback transitively
\* scheduled from it, at every nesting depth, getXavenContext returns the
\* context the middleware established: never absent, never another one.
ContextPropagation ==
    obs.owner \in Requests =>
        /\ obs.context.kind = "context"
        /\ obs.context = established[obs.owner]

\* A callback scheduled by a callback of next() has read the context.
ContextPropagationWitness ==
    /\ obs.owner \in Requests
    /\ obs.depth >= 2
    /\ obs.context.kind = "context"

\* C3. Outside any request scope the three accessors return the absent value
\* (they return, they do not throw): the store between macrotasks is empty,
\* also after the middleware has returned, and no callback of outside code
\* carries a context.
AbsentOutsideScope ==
    /\ currentStore = NoContext
    /\ \A cb \in pending : cb.owner = Outside => cb.store = NoContext
    /\ obs.owner = Outside =>
          /\ obs.context = NoContext
          /\ obs.correlationId = Undefined
          /\ obs.userId = Undefined

\* Outside code reads the context in a deferred callback after the
\* middleware has run, and returned, for both requests.
AbsentOutsideScopeWitness ==
    /\ obs.owner = Outside
    /\ obs.depth >= 1
    /\ \A r \in Requests : established[r].kind = "context"

\* the header is a single string with a character that is not whitespace
NonBlank(h) == IsString(h) /\ \E m \in 1..Len(h.val) : h.val[m] \notin Whitespace

\* C14. Seeding from the inbound header: when x-correlation-id is a string
\* that is not blank, the stored correlation id is that string without its
\* leading and trailing whitespace and otherwise character for character.
SeededFromHeader ==
    (inbound.req \in Requests /\ NonBlank(inbound.header)) =>
        LET h == inbound.header.val
            id == established[inbound.req].correlationId
        IN \E i \in 1..Len(h), j \in 1..Len(h) :
              /\ i <= j
              /\ id = SubSeq(h, i, j)
              /\ h[i] \notin Whitespace
              /\ h[j] \notin Whitespace
              /\ \A m \in 1..Len(h) : (m < i \/ m > j) => h[m] \in Whitespace

\* The header had whitespace around and inside its value, and a callback of
\* the request read the stored id.
SeededFromHeaderWitness ==
    /\ inbound.req \in Requests
    /\ inbound.header = Str(<<"a", " ", "b", " ">>)
    /\ obs.owner = inbound.req
    /\ obs.depth >= 1
    /\ obs.correlationId = Str(<<"a", " ", "b">>)

Hex == {"0", "1", "2", "3", "4", "5", "6", "7", "8", "9", "a", "b", "c", "d", "e", "f"}
IsUuidV4(id) ==
    /\ Len(id) = 36
    /\ \A m \in 1..36 :
          CASE m \in {9, 14, 19, 24} -> id[m] = "-"
            [] m = 15 -> id[m] = "4"
            [] m = 20 -> id[m] \in {"8", "9", "a", "b"}
            [] OTHER -> id[m] \in Hex

\* C15. Generated correlation id: when the header is missing, not a single
\* string, empty or blank, the stored correlation id is a generated UUID v4;
\* every context the middleware established has a non-empty correlation id.
GeneratedCorrelationId ==
    /\ (inbound.req \in Requests /\ ~NonBlank(inbound.header)) =>
          IsUuidV4(established[inbound.req].correlationId)
    /\ \A r \in Requests :
          established[r].kind = "context" => established[r].correlationId # <<>>

\* A request came with a whitespace-only header, another with a header that
\* is an array, and a callback of the latter read the generated id.
GeneratedCorrelationIdWitness ==
    /\ inbound.req \in Requests
    /\ inbound.header = StrArray
    /\ obs.owner = inbound.req
    /\ obs.depth >= 1
    /\ \E r \in Requests \ {inbound.req} :
          /\ established[r].kind = "context"
          /\ IsUuidV4(established[r].correlationId)

\* C16, as stated: the context's userId is the request's user id whenever
\* the request carries one, absent exactly when it carries none, and
\* getUserId in the scope returns the same.
UserIdSeeding ==
    inbound.req \in Requests =>
        /\ established[inbound.req].userId = inbound.userId
        /\ obs.owner = inbound.req => obs.userId = inbound.userId

\* C16, amended: the context's userId is the request's user id when that is
\* a non-empty (truthy) value and absent otherwise, also for a request whose
\* user id is the empty string; getUserId in the scope returns the same.
UserIdSeedingAmended ==
    inbound.req \in Requests =>
        LET expected == IF inbound.userId.kind = "string" /\ inbound.userId.val # <<>>
                        THEN inbound.userId ELSE Undefined
        IN /\ established[inbound.req].userId = expected
           /\ obs.owner = inbound.req => obs.userId = expected

\* A request carried the empty string as user id and a callback of the
\* request called getUserId.
UserIdSeedingWitness ==
    /\ inbound.req \in Requests
    /\ inbound.userId = Str(<<>>)
    /\ obs.owner = inbound.req
    /\ obs.depth >= 1
    /\ obs.userId = Undefined

-----------------------------------------------------------------------------
(* Properties of the concurrency gate (Spec, FairSpec) *)

Running == {k \in DOMAIN tasks : tasks[k].pc = "running"}
Queued == {k \in DOMAIN tasks : tasks[k].pc = "queued"}
Finished(k) == k \in DOMAIN tasks /\ tasks[k].pc \in {"hit", "resolved", "rejected"}
Settled(k) == k \in DOMAIN tasks /\ tasks[k].pc \in {"resolved", "rejected"}

FifoAdmission ==
    /\ \A u \in Queued : \A t \in DOMAIN tasks :
          t > u => tasks[t].upstream = 0 /\ tasks[t].pc \in {"queued", "hit"}
    /\ \A i \in 1..Len(queue) :
          /\ queue[i] \in Queued
          /\ \A j \in 1..Len(queue) : i < j => queue[i] < queue[j]
    /\ Cardinality(Queued) = Len(queue)

\* next() has started the longest-waiting fetch, its upstream call is in
\* flight, and a later fetch still waits.
FifoAdmissionWitness ==
    /\ dequeued \in Running
    /\ \E u \in Queued : dequeued < u

\* C7. Slot release: a task holds a slot exactly while it runs and next() ran
\* exactly once for every settled task, failed or not, and for no other; a
\* fetch waits only while all slots are taken; when every fetch has finished
\* no slot is held and the queue is empty.
SlotRelease ==
    /\ activeCount = Cardinality(Running)
    /\ \A k \in DOMAIN tasks :
          tasks[k].released = IF Settled(k) THEN 1 ELSE 0
    /\ queue # <<>> => activeCount = ConcurrencyLimit
    /\ (\A k \in DOMAIN tasks : Finished(k)) => activeCount = 0 /\ queue = <<>>

\* More fetches than slots were issued, upstream calls failed and succeeded,
\* a fetch had to wait for a slot, and all have settled.
SlotReleaseWitness ==
    /\ Len(tasks) > ConcurrencyLimit
    /\ \A k \in DOMAIN tasks : Settled(k)
    /\ \E k \in DOMAIN tasks : tasks[k].pc = "rejected"
    /\ \E k \in DOMAIN tasks : tasks[k].pc = "resolved"
    /\ dequeued # 0
    /\ activeCount = 0

\* C8. No starvation: provided every upstream call settles (FairSpec), every
\* fetch that was scheduled eventually starts its upstream call, unless the
\* cache served it, and eventually completes: a finished fetch stays
\* finished, and again and again all fetches scheduled so far have finished.
AllFinished ==
    \A k \in DOMAIN tasks :
        Finished(k) /\ (tasks[k].pc = "hit" \/ tasks[k].upstream = 1)
StaysFinished ==
    \A k \in DOMAIN tasks : Finished(k) => tasks'[k] = tasks[k]
NoStarvation == []<>AllFinished /\ [][StaysFinished]_vars

\* More fetches than slots were scheduled; the last of them had to wait, was
\* started and has completed, as has every other one.
NoStarvationWitness ==
    /\ Len(tasks) > ConcurrencyLimit
    /\ dequeued = Len(tasks)
    /\ \A k \in DOMAIN tasks : Finished(k)
    /\ tasks[dequeued].upstream = 1

-----------------------------------------------------------------------------
(* Properties of the cache (Spec, SpecTtl) *)

Lookups == {lookups[i] : i \in 1..Len(lookups)}
Hit(l) == tasks[l.task].pc = "hit"

\* C9. Cache hit: a fetchWithCache whose key has an unexpired entry, whatever
\* value a successful upstream fetch stored in it, returns that value, makes
\* no upstream call and does not enter the gate or its queue.
CacheHit ==
    \A l \in Lookups :
        (l.found.kind = "entry" /\ l.at < l.found.t) =>
            /\ Hit(l)
            /\ tasks[l.task].result = l.found.v
            /\ tasks[l.task].upstream = 0
            /\ l.task \notin Running \cup Queued

ServedOnlyUnexpired ==
    \A l \in Lookups :
        /\ Hit(l) => l.found.kind = "entry" /\ l.at <= l.found.t
        /\ (l.found.kind = "entry" /\ l.at > l.found.t) =>
              /\ l.cached = Undefined
              /\ cache[l.url] = NoEntry
              /\ l.task \in Running \cup Queued
              /\ l.task \in Running => tasks[l.task].upstream = 1
StoredWithTtl ==
    \A k \in DOMAIN tasks :
        (tasks[k].pc = "running" /\ tasks'[k].pc = "resolved") =>
            cache'[tasks[k].url] = Entry(tasks'[k].result, now + stdTTL)
FailLeavesCache ==
    \A k \in DOMAIN tasks :
        (tasks[k].pc = "running" /\ tasks'[k].pc = "rejected") =>
            /\ cache' = cache
            /\ tasks'[k].result = UpstreamError
RefetchAfterFailure ==
    \A l \in Lookups :
        ( /\ \E k \in 1..(l.task - 1) :
                tasks[k].url = l.url /\ tasks[k].pc = "rejected"
          /\ \A k \in DOMAIN tasks :
                tasks[k].url = l.url => tasks[k].pc # "resolved" )
        => /\ l.found = NoEntry
           /\ l.cached = Undefined
           /\ l.task \in Running \cup Queued
           /\ tasks[l.task].upstream = IF l.task \in Running THEN 1 ELSE 0
OwnUpstreamCall ==
    /\ \A k \in DOMAIN tasks :
          /\ tasks[k].pc \in {"running", "resolved", "rejected"} => tasks[k].upstream = 1
          /\ tasks[k].pc \in {"queued", "hit"} => tasks[k].upstream = 0
    /\ activeCount = Cardinality(Running)
AdmittedWithoutRecheck ==
    \A k \in DOMAIN tasks :
        /\ (tasks[k].pc = "queued" /\ tasks'[k].pc # "queued") =>
              tasks'[k].pc = "running" /\ tasks'[k].upstream = 1
        /\ (tasks[k].pc = "running" /\ tasks'[k].pc = "resolved") =>
              /\ cache'[tasks[k].url].kind = "entry"
              /\ cache'[tasks[k].url].v = tasks'[k].result
NoSingleFlight == [](OwnUpstreamCall) /\ [][AdmittedWithoutRecheck]_vars

\* Fetches for one key were issued while it was uncached; one of them waited
\* in the queue and its upstream call is in flight although an earlier one
\* has completed and its value is in the cache.
NoSingleFlightWitness ==
    /\ dequeued \in Running
    /\ \E j \in 1..(dequeued - 1) :
          /\ tasks[j].url = tasks[dequeued].url
          /\ tasks[j].pc = "resolved"
          /\ Truthy(tasks[j].result)
          /\ cache[tasks[j].url] = Entry(tasks[j].result, Livetime(now))

\* C23. A cache hit changes nothing: a fetch served from the cache leaves
\* the entry, its value and its expiry time, as it found it; an entry
\* changes only when a successful fetch of its key replaces it, with expiry
\* TTL after that write, or when it is dropped after its expiry time.
HitKeepsEntry ==
    \A i \in 1..Len(lookups') :
        tasks'[lookups'[i].task].pc = "hit" =>
            /\ lookups'[i].found.kind = "entry"
            /\ cache'[lookups'[i].url] = lookups'[i].found
            /\ cache[lookups'[i].url] = lookups'[i].found
OnlyReplacedOrExpired ==
    \A u \in Urls :
        cache'[u] # cache[u] =>
            \/ \E k \in DOMAIN tasks :
                  /\ tasks[k].url = u
                  /\ tasks[k].pc = "running"
                  /\ tasks'[k].pc = "resolved"
                  /\ cache'[u] = Entry(tasks'[k].result, now + stdTTL)
            \/ /\ cache'[u] = NoEntry
               /\ cache[u].kind = "entry"
               /\ cache[u].t < now
HitChangesNothing == [][HitKeepsEntry /\ OnlyReplacedOrExpired]_vars

\* A fetch was served from an entry written at an earlier time, and the
\* entry still carries the expiry time of that write.
HitChangesNothingWitness ==
    \E l \in Lookups :
        /\ Hit(l)
        /\ l.found.kind = "entry"
        /\ l.found.t < l.at + stdTTL
        /\ cache[l.url] = l.found

BulkTasks == {bulk.first + i - 1 : i \in 1..Len(bulk.ids)}

\* C27. Partial failure of a bulk fetch: when the upstream call for one id
\* of getPostsInBulk(ids) has failed the bulk call rejects, while every
\* other fetch of the call that has completed released its slot and, if it
\* succeeded, left its result in the cache, so that every later fetch of
\* its id is a cache hit.
PartialBulkFailure ==
    (bulk # NoBulk /\ \E f \in BulkTasks : tasks[f].pc = "rejected") =>
        /\ PromiseAll(Promises(bulk, tasks)).state = "rejected"
        /\ \A k \in BulkTasks :
              /\ Settled(k) => tasks[k].released = 1
              /\ tasks[k].pc = "resolved" =>
                    /\ cache[tasks[k].url].kind = "entry"
                    /\ \A l \in Lookups :
                          (l.task > k /\ l.url = tasks[k].url) => Hit(l)

\* C28. SimpleInjector binds each token once: a register of a token that
\* has no provider binds it to the given provider; a register of a bound
\* token throws and leaves every binding as it was; no call ever changes
\* or removes a binding; resolve of a bound token returns what that
\* provider's get() returns (the value of a ValueProvider, the instance of a
\* SingletonProvider, what the factory of a FactoryProvider just returned)
\* and resolve of an unbound token throws and changes nothing.
InjectorStep ==
    /\ di'.op = "register" =>
          IF providers[di'.token] = NoProvider
          THEN /\ di'.outcome = "returned"
               /\ providers' = [providers EXCEPT ![di'.token] = di'.provider]
          ELSE /\ di'.outcome = "threw"
               /\ providers' = providers
    /\ \A t \in Tokens : providers[t] # NoProvider => providers'[t] = providers[t]
    /\ di'.op = "resolve" =>
          /\ providers' = providers
          /\ IF providers[di'.token] = NoProvider
             THEN /\ di'.outcome = "threw"
                  /\ UNCHANGED <<instance, produced>>
             ELSE LET p == providers[di'.token] IN
                  /\ di'.outcome = "returned"
                  /\ p.class = "ValueProvider" => di'.value = p.of
                  /\ p.class = "SingletonProvider" => di'.value = instance'[p]
                  /\ p.class = "FactoryProvider" =>
                        /\ Len(produced'[FactoryOf(p)]) = Len(produced[FactoryOf(p)]) + 1
                        /\ di'.value = produced'[FactoryOf(p)][Len(produced'[FactoryOf(p)])]

BindsOnce == [][InjectorStep]_vars

\* register("logger", ...) of the bound token "logger" has just thrown, the
\* token "config" being bound to a SingletonProvider that holds an instance.
BindsOnceWitness ==
    /\ di.op = "register" /\ di.outcome = "threw"
    /\ providers[di.token] # NoProvider
    /\ providers[di.token] # di.provider
    /\ \E t \in Tokens : t # di.token /\ providers[t] \in Singletons
                              /\ Truthy(instance[providers[t]])

\* C29. SingletonProvider is a singleton: the factory of a SingletonProvider
\* has been invoked at most once, and a get() on it (directly or through
\* resolve) returned the value that invocation produced.
Singleton ==
    \A p \in Singletons :
        /\ Len(produced[FactoryOf(p)]) <= 1
        /\ (di.op \in {"get", "resolve"} /\ di.outcome = "returned" /\ di.provider = p)
              => di.value = produced[FactoryOf(p)][1]

\* C18. Uniform retry: the generic fetch goes through the bounded-retry
\* caller as the domain clients do: a fetch rejects only after its upstream
\* call was attempted up to the retry ceiling (2 by default).
UniformRetry ==
    \A k \in DOMAIN tasks :
        tasks[k].pc = "rejected" => tasks[k].upstream = DefaultRetryCount

\* base, one slash, decimal id
CanonicalUrl(id) == <<"https://api.xavenai.com", "/">> \o Decimal(id)

\* C19. Canonical URL: a fetch of post id that finds the cache empty makes
\* one upstream GET, to "https://api.xavenai.com/<id>", and that URL is the
\* key its result is cached under.
CanonicalUrlUsed ==
    \A k \in DOMAIN tasks :
        /\ \E id \in PostIds : tasks[k].url = CanonicalUrl(id)
        /\ tasks[k].upstream <= 1
        /\ tasks[k].pc = "resolved" =>
              \E id \in PostIds :
                  cache[CanonicalUrl(id)].kind = "entry" /\ tasks[k].url = CanonicalUrl(id)

\* C20. Bulk fetch ordering: when no upstream call of getPostsInBulk(ids)
\* failed and all have completed, the call returns one result per id, and
\* the i-th result is a body the upstream returned for the i-th id, whatever
\* the order of admission and completion and whichever ids the cache served.
BulkOrdering ==
    LET all == PromiseAll(Promises(bulk, tasks))
    IN (bulk # NoBulk /\ all.state = "fulfilled") =>
          /\ Len(all.value) = Len(bulk.ids)
          /\ \A i \in 1..Len(bulk.ids) :
                \E j \in DOMAIN tasks :
                    /\ tasks[j].url = PostUrl(bulk.ids[i])
                    /\ tasks[j].pc = "resolved"
                    /\ tasks[j].result = all.value[i]

\* A bulk call for different ids has returned; the cache served one of its
\* ids, the upstream another, and the upstream results differ.
BulkOrderingWitness ==
    LET all == PromiseAll(Promises(bulk, tasks))
    IN /\ bulk # NoBulk
       /\ all.state = "fulfilled"
       /\ \E i, j \in 1..Len(bulk.ids) :
             /\ bulk.ids[i] # bulk.ids[j]
             /\ tasks[bulk.first + i - 1].pc = "hit"
             /\ tasks[bulk.first + j - 1].pc = "resolved"
             /\ all.value[i] # all.value[j]

-----------------------------------------------------------------------------
(* Properties of the domain clients (SpecClient) *)

\* C4. Each domain client call stamps its payload with the correlation id of
\* the context store: inside a request scope every post of the call carries
\* that request's correlation id, and only outside any scope a fresh one.
StampedWithContextId ==
    \A i \in DOMAIN calls :
        /\ calls[i].scope # Undefined =>
              \A n \in DOMAIN calls[i].posts :
                  Str(calls[i].posts[n].correlationId) = calls[i].scope
        /\ calls[i].scope = Undefined =>
              calls[i].payload.correlationId \in UUIDs

RetryCountOf(i) == clients[calls[i].client].retryCount

\* C12. Retry until success: with a retry ceiling of at least 1, after k-1
\* failed posts (k <= ceiling) the k-th post is made; when it succeeds the
\* invocation returns the data of that k-th response, exactly k posts were
\* made, and nothing is posted after the success.
ReturnsKthResponse ==
    \A i \in DOMAIN calls :
        RetryCountOf(i) >= 1 =>
            /\ (calls[i].attempts < RetryCountOf(i) /\ calls[i].pc # "returned") =>
                  /\ calls[i].pc = "posting"
                  /\ Len(calls[i].posts) = calls[i].attempts + 1
            /\ calls[i].pc = "returned" =>
                  /\ Len(calls[i].posts) = calls[i].attempts + 1
                  /\ Len(calls[i].posts) <= RetryCountOf(i)
                  /\ calls[i].result = ResponseData(i, Len(calls[i].posts))
NoPostAfterSuccess ==
    \A i \in DOMAIN calls :
        calls[i].pc = "returned" => calls'[i] = calls[i]
RetryUntilSuccess == [](ReturnsKthResponse) /\ [][NoPostAfterSuccess]_vars

\* With a ceiling of 3, two posts of parseUserQuery failed and the third
\* succeeded.
RetryUntilSuccessWitness ==
    \E i \in DOMAIN calls :
        /\ calls[i].client = "ai"
        /\ RetryCountOf(i) = 3
        /\ calls[i].pc = "returned"
        /\ calls[i].attempts = 2
        /\ Len(calls[i].posts) = 3

\* C13. Retry exhaustion: with a retry ceiling of at least 1, never more
\* posts are made than the ceiling; when every post has failed, exactly
\* `ceiling` posts were made and the invocation throws the terminal error,
\* which states the ceiling and the message of the last failure.
RetryExhaustion ==
    \A i \in DOMAIN calls :
        RetryCountOf(i) >= 1 =>
            /\ Len(calls[i].posts) <= RetryCountOf(i)
            /\ calls[i].attempts = RetryCountOf(i) => calls[i].pc = "threw"
            /\ calls[i].pc = "threw" =>
                  /\ Len(calls[i].posts) = RetryCountOf(i)
                  /\ calls[i].attempts = RetryCountOf(i)
                  /\ calls[i].result.kind = "error"
                  /\ calls[i].result.attempts = RetryCountOf(i)
                  /\ calls[i].result.last = RemoteError(i, RetryCountOf(i)).message

\* optimizePurchase has given up after the default ceiling of 2 posts.
RetryExhaustionWitness ==
    \E i \in DOMAIN calls :
        /\ calls[i].client = "optimizer"
        /\ RetryCountOf(i) = DefaultRetryCount
        /\ Len(calls[i].posts) = 2
        /\ calls[i].pc = "threw"

AiCalls == {i \in DOMAIN calls : calls[i].client = "ai"}

\* C17, as stated: the language of every payload parseUserQuery posts is the
\* preferredLanguage argument when the caller gave one, and the configured
\* defaultLanguage otherwise.
LanguageSelection ==
    \A i \in AiCalls : \A n \in DOMAIN calls[i].posts :
        calls[i].posts[n].language =
            IF calls[i].args.preferredLanguage # Undefined
            THEN calls[i].args.preferredLanguage
            ELSE clients["ai"].defaultLanguage

\* C17, amended: the language of every payload parseUserQuery posts, on the
\* first attempt and on every retry, is the preferredLanguage argument when
\* that is a non-empty string, and the configured defaultLanguage otherwise,
\* also when preferredLanguage is the empty string.
LanguageSelectionAmended ==
    \A i \in AiCalls : \A n \in DOMAIN calls[i].posts :
        calls[i].posts[n].language =
            IF /\ calls[i].args.preferredLanguage.kind = "string"
               /\ calls[i].args.preferredLanguage.val # <<>>
            THEN calls[i].args.preferredLanguage
            ELSE clients["ai"].defaultLanguage

\* parseUserQuery was called with "" as preferredLanguage on an engine whose
\* defaultLanguage is the default "en", and has retried.
LanguageSelectionWitness ==
    \E i \in AiCalls :
        /\ calls[i].args.preferredLanguage = Str(<<>>)
        /\ clients["ai"].defaultLanguage = English
        /\ Len(calls[i].posts) >= 2
        /\ calls[i].posts[2].language = English

\* C21. The domain clients leave the shared resources alone: every step of a
\* parseUserQuery / optimizePurchase invocation (the call, a failed post
\* and its retry, the success, the exhaustion) leaves the cache, the gate's
\* activeCount and queue, and the clients' configuration as they were, and
\* an invocation that has attempts left has its post in flight, however
\* many fetches occupy the gate.
ClientStepFrame ==
    calls' # calls =>
        /\ cache' = cache
        /\ activeCount' = activeCount
        /\ queue' = queue
        /\ clients' = clients
NotDelayedByGate ==
    \A i \in DOMAIN calls :
        (calls[i].attempts < RetryCountOf(i) /\ calls[i].pc # "returned") =>
            /\ calls[i].pc = "posting"
            /\ Len(calls[i].posts) = calls[i].attempts + 1
ClientsLeaveSharedAlone == [][ClientStepFrame]_vars /\ [](NotDelayedByGate)

\* All three slots of the gate are taken and a retry post of a client
\* invocation is in flight.
ClientsLeaveSharedAloneWitness ==
    /\ activeCount = ConcurrencyLimit
    /\ \E i \in DOMAIN calls :
          /\ calls[i].pc = "posting"
          /\ calls[i].attempts = 1
          /\ Len(calls[i].posts) = 2

\* C24. Attempts reported are attempts made: whatever retry ceiling the
\* constructor was given, an invocation that throws the terminal error has
\* posted at least once, the error states the number of posts made, and it
\* carries the message of a last underlying error.
AttemptsReportedAreMade ==
    \A i \in DOMAIN calls :
        calls[i].pc = "threw" =>
            /\ Len(calls[i].posts) >= 1
            /\ calls[i].result.attempts = Len(calls[i].posts)
            /\ calls[i].result.last # Undefined

-----------------------------------------------------------------------------
(* Properties of GET /post-by-id (SpecRoute) *)

Handled == {http[i] : i \in 1..Len(http)}
Fetched(h) == h.task # 0 /\ tasks[h.task].pc \in {"hit", "resolved"}
NotFound(h) ==
    /\ PostByIdReply(h, tasks).status = 404
    /\ PostByIdReply(h, tasks).error = NotFoundMessage(h.postId)

RepliesByOutcome ==
    \A h \in Handled :
        /\ Fetched(h) =>
              /\ NotFound(h) <=> ~Truthy(tasks[h.task].result)
              /\ ~NotFound(h) =>
                    PostByIdReply(h, tasks) =
                        [status |-> 200, data |-> tasks[h.task].result]
        /\ (h.task # 0 /\ tasks[h.task].pc = "rejected") =>
              PostByIdReply(h, tasks).status = 500
        /\ ~IsNumericString(h.postId) =>
              /\ h.task = 0
              /\ PostByIdReply(h, tasks) =
                    [status |-> 400, error |-> <<"Validation failed">>]
        /\ IsNumericString(h.postId) =>
              /\ h.task \in DOMAIN tasks
              /\ tasks[h.task].url = PostUrl(ParseInt(h.postId.val))
InvalidTouchesNothing ==
    (Len(http') > Len(http) /\ ~IsNumericString(http'[Len(http')].postId)) =>
        /\ tasks' = tasks
        /\ cache' = cache
        /\ activeCount' = activeCount
        /\ queue' = queue
        /\ lookups' = <<>>
OneIdentityPerCall ==
    \A i \in DOMAIN calls : \A n \in DOMAIN calls[i].posts :
        /\ calls[i].posts[n] = calls[i].posts[1]
        /\ calls[i].posts[n].correlationId = calls[i].payload.correlationId
        /\ calls[i].posts[n].correlationId \in UUIDs

\* optimizePurchase has posted three times, after two failures.
OneIdentityPerCallWitness ==
    \E i \in DOMAIN calls :
        /\ calls[i].client = "optimizer"
        /\ Len(calls[i].posts) = 3
        /\ calls[i].attempts = 2

====
